---- MODULE Spec2Model ----
(***************************************************************************)
(* A model of mcp_sync_local.py: the front-matter codec, the push engine,  *)
(* the debounce handler, the tree pull and the command line entry point.   *)
(*                                                                         *)
(* Texts (file contents, names, ids) are sequences of one-character        *)
(* strings, so that the regular expressions of the codec are modelled by   *)
(* what they match and not by what they are meant to match.                *)
(***************************************************************************)
EXTENDS Integers, Sequences, FiniteSets, TLC

\* ------------------------------------------------------------------ texts

NL == "\n"

\* What \s matches and what str.strip() removes, within the model's alphabet.
Whitespace == {" ", NL, "\t"}

\* The characters of value.strip('"\'').
Quotes == {"\"", "'"}

Max(S) == CHOOSE x \in S : \A y \in S : y <= x

Min(S) == CHOOSE x \in S : \A y \in S : x <= y

AllWs(s, i, j) == \A k \in i..j : s[k] \in Whitespace

From(s, i) == SubSeq(s, i, Len(s))

\* str.strip(chars): the text without its leading and trailing chars of C.
StripChars(s, C) ==
    LET keep == {i \in 1..Len(s) : s[i] \notin C}
    IN  IF keep = {} THEN <<>> ELSE SubSeq(s, Min(keep), Max(keep))

\* str.split('\n')
RECURSIVE SplitLines(_)
SplitLines(s) ==
    LET nls == {k \in 1..Len(s) : s[k] = NL}
    IN  IF nls = {} THEN <<s>>
        ELSE <<SubSeq(s, 1, Min(nls) - 1)>> \o SplitLines(From(s, Min(nls) + 1))

KEY_ID == <<"m", "a", "r", "k", "d", "_", "i", "d">>

KEY_NAME == <<"m", "a", "r", "k", "d", "_", "n", "a", "m", "e">>

KEY_PARENT == <<"m", "a", "r", "k", "d", "_", "p", "a", "r", "e", "n", "t">>

DASHES == <<"-", "-", "-">>

\* ------------------------------------------------------------------ codec

\* ^--- at the start of the text.
StartsWithDashes(s) == Len(s) >= 3 /\ SubSeq(s, 1, 3) = DASHES

\* ^---\s*\n : the positions of the line break that may end the opening marker.
OpenEnds(s) ==
    IF StartsWithDashes(s)
    THEN {p \in 4..Len(s) : s[p] = NL /\ AllWs(s, 4, p - 1)}
    ELSE {}

\* \n---\s*\n matched from position e: the positions of its last line break.
CloseEnds(s, e) ==
    IF e >= 1 /\ e + 3 <= Len(s) /\ s[e] = NL /\ SubSeq(s, e + 1, e + 3) = DASHES
    THEN {q \in (e + 4)..Len(s) : s[q] = NL /\ AllWs(s, e + 4, q - 1)}
    ELSE {}

\* (.*?) from g followed by \n---\s*\n : where the closing marker may start.
CloseStarts(s, g) == {e \in g..Len(s) : CloseEnds(s, e) # {}}

\* re.match(r'^---\s*\n(.*?)\n---\s*\n', content, re.DOTALL): the first match in
\* the order a backtracking matcher tries them: the opening \s* greedy, the
\* group lazy, the closing \s* greedy.  The group is s[from..to], the match
\* ends at position end.
HeaderMatch(s) ==
    LET P == {p \in OpenEnds(s) : CloseStarts(s, p + 1) # {}}
    IN  IF P = {} THEN [found |-> FALSE, from |-> 0, to |-> 0, end |-> 0]
        ELSE LET p == Max(P)
                 e == Min(CloseStarts(s, p + 1))
             IN  [found |-> TRUE, from |-> p + 1, to |-> e - 1,
                  end |-> Max(CloseEnds(s, e))]

\* One line of the front matter: nothing without ':', else key and value.
LineEntry(line) ==
    LET colons == {k \in 1..Len(line) : line[k] = ":"}
    IN  IF colons = {} THEN <<>>
        ELSE StripChars(SubSeq(line, 1, Min(colons) - 1), Whitespace)
                :> StripChars(StripChars(From(line, Min(colons) + 1), Whitespace),
                              Quotes)

\* The dictionary built line by line: a later line overwrites an earlier one.
RECURSIVE EntriesOf(_)
EntriesOf(lines) ==
    IF lines = <<>> THEN <<>>
    ELSE LineEntry(lines[Len(lines)]) @@ EntriesOf(SubSeq(lines, 1, Len(lines) - 1))

extract_metadata(content) ==
    LET m == HeaderMatch(content)
    IN  IF m.found THEN EntriesOf(SplitLines(SubSeq(content, m.from, m.to)))
        ELSE <<>>

\* metadata.get(key): the value, or the empty text for None (both are falsy,
\* and every use of the result in the program tests it for truth first).
MetaGet(metadata, key) == IF key \in DOMAIN metadata THEN metadata[key] ELSE <<>>

strip_metadata(content) ==
    LET m == HeaderMatch(content)
    IN  IF m.found THEN From(content, m.end + 1) ELSE content

\* re.sub(r'^---\s*\n.*?\n---\s*\n', '', content, flags=re.DOTALL): ^ matches at
\* the start only, so at most one block is removed.
RemoveFirstBlock(content) ==
    LET m == HeaderMatch(content)
    IN  IF m.found THEN From(content, m.end + 1) ELSE content

Frontmatter(doc_id, name, parent_id) ==
    DASHES \o <<NL>>
    \o KEY_ID \o <<":", " ">> \o doc_id \o <<NL>>
    \o KEY_NAME \o <<":", " ">> \o name \o <<NL>>
    \o (IF parent_id # <<>> THEN KEY_PARENT \o <<":", " ">> \o parent_id \o <<NL>>
        ELSE <<>>)
    \o DASHES \o <<NL, NL>>

add_metadata_to_content(content, doc_id, name, parent_id) ==
    Frontmatter(doc_id, name, parent_id)
    \o (IF OpenEnds(content) # {} THEN RemoveFirstBlock(content) ELSE content)

\* ------------------------------------------------------------------ bounds

\* The filesystem events (create, modify, delete) of a watch session.
MaxEvents == 2

\* The time at which the clock of a watch session stops.
MaxTime == 4

\* The filesystem events of a run of the whole program.
MainEvents == 1

\* The time at which the clock of a run of the whole program stops.
MainTime == 2

\* The filesystem events of a watch session on two files.
TwoEvents == 2

\* The time at which the clock of a watch session on two files stops.
TwoTime == 4

\* The codec operations applied in a row to one text.
CodecSteps == 3

\* config.get('debounce_time', 2.0)
DebounceTime == 2

\* ------------------------------------------------------------------ inputs

T_hi == <<"h", "i">>

T_yo == <<"y", "o">>

NameA == <<"A">>

NameB == <<"B">>

IdX == <<"X">>

IdP == <<"P">>

Root == <<>>

\* A header a user wrote by hand: a name, a parent and a key of their own, no id.
HandHeader ==
    DASHES \o <<NL>> \o KEY_NAME \o <<":", " ", "N", NL>>
    \o KEY_PARENT \o <<":", " ">> \o IdP \o <<NL, "k", ":", " ", "v", NL>>
    \o DASHES \o <<NL>>

\* The contents a local file is created with.
NewContents ==
    { T_hi,
      HandHeader \o T_hi,
      add_metadata_to_content(T_hi, IdX, NameA, <<>>) }

\* The bodies an edit leaves behind.
Bodies == {T_hi, T_yo}

\* The header block of a text, as the codec sees it.
HeaderOf(content) ==
    LET m == HeaderMatch(content)
    IN  IF m.found THEN SubSeq(content, 1, m.end) ELSE <<>>

\* What an editor may save over a file: the same bytes (a touch), or another
\* body under the same header.
Edits(content) == {content} \cup {HeaderOf(content) \o b : b \in Bodies}

\* The paths of the document root a user may work on: A.md and B.md.
WatchPaths == {<<NameA>>, <<NameB>>}

\* --push <path>
PushTarget == <<NameA>>

FileNode(id, name, content, parent_id) ==
    [type |-> "file", id |-> id, name |-> name, content |-> content,
     parent_id |-> parent_id, children |-> <<>>]

FolderNode(id, name, parent_id, children) ==
    [type |-> "folder", id |-> id, name |-> name, content |-> <<>>,
     parent_id |-> parent_id, children |-> children]

F1 == <<"f", "1">>

F2 == <<"f", "2">>

F3 == <<"f", "3">>

D1 == <<"d", "1">>

D2 == <<"d", "2">>

FileIds == {F1, F2, F3}

\* What a remote document may hold: plain text, text after a blank line, text
\* after a three-dash block, nothing.
RemoteContents ==
    { T_hi,
      <<NL>> \o T_hi,
      DASHES \o <<NL, "k", ":", " ", "v", NL>> \o DASHES \o <<NL>> \o T_yo,
      <<>> }

\* The remote trees, sibling names distinct, for an assignment c of contents.
Trees(c) ==
    { <<>>,
      <<FolderNode(D1, NameA, <<>>, <<FileNode(F1, NameB, c[F1], D1)>>)>>,
      <<FileNode(F1, NameA, c[F1], <<>>), FileNode(F2, NameB, c[F2], <<>>)>>,
      <<FolderNode(D1, NameA, <<>>,
            <<FileNode(F1, NameA, c[F1], D1),
              FolderNode(D2, NameB, D1, <<FileNode(F2, NameB, c[F2], D2)>>)>>),
        FileNode(F3, NameB, c[F3], <<>>)>>,
      <<FolderNode(D1, NameB, <<>>, <<>>), FileNode(F1, NameB, c[F1], <<>>)>> }

\* A block between three-dash lines that is not the program's own.
OtherBlock == DASHES \o <<NL, "k", ":", " ", "v", NL>> \o DASHES \o <<NL>>

\* The texts the codec is applied to: empty, plain, after a blank line, after a
\* whitespace-only line, under a header, under two headers, under a header whose
\* markers carry trailing blanks, and after an opening marker that is never closed.
CodecTexts ==
    { <<>>,
      T_hi,
      <<NL>> \o T_hi,
      <<" ", NL>> \o T_hi,
      HandHeader \o T_hi,
      HandHeader \o OtherBlock \o T_yo,
      DASHES \o <<" ", NL, "k", ":", " ", "v", NL>> \o DASHES \o <<" ", NL>> \o T_hi,
      DASHES \o <<NL, "k", ":", " ", "v", NL>> \o T_hi }

\* Single-line names: plain, in quotes, with a colon.
CodecNames == {<<"N">>, <<"'", "N", "'">>, <<"a", ":", "b">>}

CodecIds == {IdX}

\* parent_id: None, or an id.
CodecParents == {<<>>, IdP}

\* ------------------------------------------------------------------ state

VARIABLES
    args,             \* the command line: [mode], one of push, pull, watch
    config,           \* .markd-sync.json: credential, workspace, auto_pull, watch_enabled
    pc,               \* where main() and start() stand
    session,          \* client.session: none, open, closed
    observer,         \* the watchdog observer: off, on, stopped
    files,            \* the .md files on disk: path -> text
    dirs,             \* the directories on disk
    now,              \* time.time()
    pending_changes,  \* MarkDSyncHandler.pending_changes: path -> time
    tasks,            \* the push coroutines, in the order they were created
    calls,            \* the create and update requests sent, in order
    nextId,           \* the remote store's next document id
    tree,             \* the remote tree
    worklist,         \* the nodes the pull has still to visit, depth first
    pullCtx,          \* who called pull_all: start (auto) or main (manual)
    pulls,            \* how many times pull_all was entered
    fetchFailed,      \* the ids whose content fetch answered non-200 in this pull
    treeFailed,       \* the tree request answered non-200
    watched,          \* the paths the user works on during the session
    budget,           \* the filesystem events the environment may still raise
    horizon           \* the time at which the clock stops

vars ==
    <<args, config, pc, session, observer, files, dirs, now, pending_changes,
      tasks, calls, nextId, tree, worklist, pullCtx, pulls, fetchFailed,
      treeFailed, watched, budget, horizon>>

mainVars == <<args, config, tree, watched, horizon>>

diskVars == <<files, dirs>>

pullVars == <<worklist, pullCtx, pulls, fetchFailed, treeFailed>>

watchVars == <<now, pending_changes, tasks, calls, nextId, budget>>

Modes == {"push", "pull", "watch"}

Configs ==
    [cred : {"password", "token", "none"}, workspace : BOOLEAN,
     auto_pull : BOOLEAN, watch_enabled : BOOLEAN]

\* The process is running: main() has neither returned nor been torn down.
Alive == pc \notin {"done", "crashed", "stopped"}

DigitChars == <<"0", "1", "2", "3", "4", "5", "6", "7", "8", "9">>

RECURSIVE Decimal(_)
Decimal(n) ==
    IF n < 10 THEN <<DigitChars[n + 1]>>
    ELSE Decimal(n \div 10) \o <<DigitChars[(n % 10) + 1]>>

\* result['document']['id'] of the n-th document the store creates.
IdOf(n) == <<"n">> \o Decimal(n)

\* Path.stem of <dir>/<name>.md
Stem(path) == path[Len(path)]

\* One file with the given text, or none.
OneFile(path, texts) == {<<>>} \cup {path :> c : c \in texts}

InitWith(modes, configs, fileSets, trees, paths, events, time) ==
    /\ args \in [mode : modes]
    /\ config \in configs
    /\ pc = "main"
    /\ session = "none"
    /\ observer = "off"
    /\ files \in fileSets
    /\ dirs = {Root}
    /\ now = 0
    /\ pending_changes = <<>>
    /\ tasks = <<>>
    /\ calls = <<>>
    /\ nextId = 1
    /\ tree \in trees
    /\ worklist = <<>>
    /\ pullCtx = "none"
    /\ pulls = 0
    /\ fetchFailed = {}
    /\ treeFailed = FALSE
    /\ watched = paths
    /\ budget = events
    /\ horizon = time

\* ------------------------------------------------------------------ push

NewTask(path, timer) ==
    [path |-> path, timer |-> timer, armed |-> now, st |-> "sleeping",
     name |-> <<>>, parent |-> <<>>, outcome |-> "none"]

Finished(t, outcome) ==
    [t EXCEPT !.st = "done", !.name = <<>>, !.parent = <<>>, !.outcome = outcome]

Request(op, t, doc_id, name, content, parent) ==
    [op |-> op, id |-> doc_id, name |-> name, body |-> strip_metadata(content),
     parent |-> parent, path |-> t.path, at |-> now]

\* A push that ignores the display name of the header.
DocNameStemOnly(metadata, path) == Stem(path)

\* metadata.get('markd_name') or file_path.stem
DocName(metadata, path) ==
    IF MetaGet(metadata, KEY_NAME) # <<>> THEN MetaGet(metadata, KEY_NAME)
    ELSE Stem(path)

\* push_file up to its first suspension: the read, the header, the request sent.
\* A missing file and a closed session raise, and the except clause ends the push.
push_file(t) ==
    IF t.path \notin DOMAIN files \/ session # "open"
    THEN [task |-> Finished(t, "failed"), sent |-> <<>>]
    ELSE LET content == files[t.path]
             metadata == extract_metadata(content)
             doc_id == MetaGet(metadata, KEY_ID)
             doc_name == DocName(metadata, t.path)
             parent == MetaGet(metadata, KEY_PARENT)
         IN  IF doc_id = <<>>
             THEN [task |-> [t EXCEPT !.st = "creating", !.name = doc_name,
                                      !.parent = parent],
                   sent |-> <<Request("create", t, <<>>, doc_name, content, parent)>>]
             ELSE [task |-> [t EXCEPT !.st = "updating", !.name = doc_name],
                   sent |-> <<Request("update", t, doc_id, doc_name, content, <<>>)>>]

\* A push that clears the whole pending map when it is done.
AfterPushClearsAll(t, pending) == [task |-> t, pending |-> <<>>]

\* A push that leaves the pending entry where it is.
AfterPushKeeps(t, pending) == [task |-> t, pending |-> pending]

\* del self.pending_changes[str(file_path)], which raises KeyError when another
\* push has removed the entry already: the task then ends with that error.
AfterPush(t, pending) ==
    IF ~t.timer THEN [task |-> t, pending |-> pending]
    ELSE IF t.path \in DOMAIN pending
    THEN [task |-> t,
          pending |-> [q \in DOMAIN pending \ {t.path} |-> pending[q]]]
    ELSE [task |-> [t EXCEPT !.st = "unhandled"], pending |-> pending]

\* A handler that keeps the time of the first event of a path.
OnEventKeepsFirst(path, pending, ts) ==
    [pending |-> pending @@ (path :> now), tasks |-> Append(ts, NewTask(path, TRUE))]

\* on_modified / on_created for a .md file: the entry is overwritten and a new
\* debounced_push task is created.
OnEvent(path, pending, ts) ==
    [pending |-> (path :> now) @@ pending, tasks |-> Append(ts, NewTask(path, TRUE))]

\* add_metadata_to_file
add_metadata_to_file(path, doc_id, name, parent_id) ==
    (path :> add_metadata_to_content(files[path], doc_id, name, parent_id)) @@ files

\* ------------------------------------------------------------------ watch

\* The filesystem raises a create or modify event for a .md file the user has
\* just written; the handler runs under the scheduler.
FsEvent(path, content) ==
    /\ pc = "watch" /\ observer = "on" /\ budget > 0
    /\ path \in watched
    /\ content \in (IF path \in DOMAIN files THEN Edits(files[path]) ELSE NewContents)
    /\ files' = (path :> content) @@ files
    /\ LET ev == OnEvent(path, pending_changes, tasks)
       IN  pending_changes' = ev.pending /\ tasks' = ev.tasks
    /\ budget' = budget - 1
    /\ UNCHANGED <<mainVars, pc, session, observer, dirs, now, calls, nextId, pullVars>>

\* The user deletes a file: no handler of the program listens to that.
FsDelete(path) ==
    /\ pc = "watch" /\ budget > 0
    /\ path \in watched \cap DOMAIN files
    /\ files' = [q \in DOMAIN files \ {path} |-> files[q]]
    /\ budget' = budget - 1
    /\ UNCHANGED <<mainVars, pc, session, observer, dirs, now, pending_changes,
                   tasks, calls, nextId, pullVars>>

\* Time passes while no sleep is due: asyncio.sleep(debounce_time) returns on time.
Tick ==
    /\ pc = "watch" /\ now < horizon
    /\ \A i \in 1..Len(tasks) :
          tasks[i].st = "sleeping" => now < tasks[i].armed + DebounceTime
    /\ now' = now + 1
    /\ UNCHANGED <<mainVars, pc, session, observer, diskVars, pending_changes,
                   tasks, calls, nextId, pullVars, budget>>

\* debounced_push after its sleep: the freshness check, and the push up to its
\* first suspension.
debounced_push(i) ==
    /\ Alive
    /\ i \in 1..Len(tasks)
    /\ tasks[i].st = "sleeping"
    /\ now >= tasks[i].armed + DebounceTime
    /\ LET t == tasks[i]
           fresh == /\ t.path \in DOMAIN pending_changes
                    /\ now - pending_changes[t.path] >= DebounceTime
           r == push_file(t)
           a == IF r.task.st = "done" THEN AfterPush(r.task, pending_changes)
                ELSE [task |-> r.task, pending |-> pending_changes]
       IN  IF fresh
           THEN /\ tasks' = [tasks EXCEPT ![i] = a.task]
                /\ pending_changes' = a.pending
                /\ calls' = calls \o r.sent
           ELSE /\ tasks' = [tasks EXCEPT ![i] = Finished(t, "skipped")]
                /\ UNCHANGED <<pending_changes, calls>>
    /\ UNCHANGED <<mainVars, pc, session, observer, diskVars, now, nextId,
                   pullVars, budget>>

\* A push that writes the header back after an update as well.
WritesBackAlways(st, ok) == ok

\* The file is rewritten in the create branch only, once the id has come back.
WritesBack(st, ok) == st = "creating" /\ ok

\* The answer to a create or update request: the rest of push_file (the id
\* written back into the file, or the error caught), then the rest of
\* debounced_push.  The write into the watched directory raises a modify event.
PushResponse(i, ok) ==
    /\ Alive
    /\ i \in 1..Len(tasks)
    /\ tasks[i].st \in {"creating", "updating"}
    /\ ok => session = "open"
    /\ LET t == tasks[i]
           created == WritesBack(t.st, ok)
           wrote == created /\ t.path \in DOMAIN files
           outcome == IF ~ok THEN "failed"
                      ELSE IF t.st = "updating" THEN "updated"
                      ELSE IF wrote THEN "created" ELSE "failed"
           a == AfterPush(Finished(t, outcome), pending_changes)
           ts == [tasks EXCEPT ![i] = a.task]
           ev == IF wrote /\ observer = "on" THEN OnEvent(t.path, a.pending, ts)
                 ELSE [pending |-> a.pending, tasks |-> ts]
       IN  /\ files' = IF wrote
                       THEN add_metadata_to_file(t.path, IdOf(nextId), t.name, t.parent)
                       ELSE files
           /\ nextId' = IF created THEN nextId + 1 ELSE nextId
           /\ pending_changes' = ev.pending
           /\ tasks' = ev.tasks
    /\ UNCHANGED <<mainVars, pc, session, observer, dirs, now, calls, pullVars, budget>>

\* Ctrl-C during the watch loop.  Raised inside start()'s try block it is caught:
\* the observer is stopped and the session closed, and start() returns.  Raised
\* anywhere else in the event loop, or delivered as a cancellation of the main
\* task, it is not caught by that clause and the loop is torn down as it is.
Interrupt ==
    /\ pc = "watch"
    /\ \/ /\ observer' = "stopped"
          /\ session' = "closed"
          /\ pc' = "after_start"
       \/ /\ pc' = "stopped"
          /\ UNCHANGED <<observer, session>>
    /\ UNCHANGED <<mainVars, diskVars, watchVars, pullVars>>

\* ------------------------------------------------------------------ pull

\* The children of a folder (or the top of the tree), each with its directory.
Visits(items, dir) == [k \in 1..Len(items) |-> [node |-> items[k], dir |-> dir]]

\* pull_all is entered: the tree request is sent.
EnterPull(ctx) ==
    /\ pulls' = pulls + 1
    /\ pullCtx' = ctx
    /\ pc' = IF session = "open" THEN "pull_tree" ELSE "crashed"
    /\ fetchFailed' = {}
    /\ UNCHANGED <<worklist, treeFailed>>

\* A pull that does not look at the status of the tree request.
TreeAcceptedAlways(ok) == TRUE

\* if resp.status != 200: raise
TreeAccepted(ok) == ok

\* The answer to GET /api/documents/tree: a non-200 status raises, anything else
\* starts the walk at docs_root.
PullTreeResponse(ok) ==
    /\ pc = "pull_tree"
    /\ treeFailed' = ~ok
    /\ IF TreeAccepted(ok) THEN /\ worklist' = Visits(tree, Root)
                                /\ pc' = "pull_walk"
       ELSE /\ pc' = "crashed"
            /\ UNCHANGED worklist
    /\ UNCHANGED <<mainVars, session, observer, diskVars, watchVars, pullCtx,
                   pulls, fetchFailed>>

\* A fetch that hands the error body on as the content.
get_document_content_error_body(node, ok) ==
    IF ok THEN node.content ELSE <<"e", "r", "r">>

\* get_document_content: "" for a non-200 status.
get_document_content(node, ok) == IF ok THEN node.content ELSE <<>>

\* sync_tree_to_files at a file item: the content is fetched and the file written.
PullVisitFile(ok) ==
    /\ pc = "pull_walk"
    /\ worklist # <<>>
    /\ worklist[1].node.type = "file"
    /\ LET item == worklist[1].node
           file_path == Append(worklist[1].dir, item.name)
           content == get_document_content(item, ok)
       IN  /\ files' = (file_path :> add_metadata_to_content(
                           content, item.id, item.name, item.parent_id)) @@ files
           /\ fetchFailed' = IF ok THEN fetchFailed ELSE fetchFailed \cup {item.id}
    /\ worklist' = Tail(worklist)
    /\ UNCHANGED <<mainVars, pc, session, observer, dirs, watchVars, pullCtx, pulls,
                   treeFailed>>

\* sync_tree_to_files at a folder item: mkdir(exist_ok=True), then its children.
PullVisitFolder ==
    /\ pc = "pull_walk"
    /\ worklist # <<>>
    /\ worklist[1].node.type = "folder"
    /\ LET item == worklist[1].node
           folder_path == Append(worklist[1].dir, item.name)
       IN  /\ dirs' = dirs \cup {folder_path}
           /\ worklist' = Visits(item.children, folder_path) \o Tail(worklist)
    /\ UNCHANGED <<mainVars, pc, session, observer, files, watchVars, pullCtx,
                   pulls, fetchFailed, treeFailed>>

\* pull_all returns: to start() after the initial pull, to main() after --pull,
\* which closes the session and ends.
PullReturn ==
    /\ pc = "pull_walk"
    /\ worklist = <<>>
    /\ IF pullCtx = "auto" THEN pc' = "start_watch" /\ UNCHANGED session
       ELSE pc' = "done" /\ session' = "closed"
    /\ UNCHANGED <<mainVars, observer, diskVars, watchVars, pullVars>>

\* ------------------------------------------------------------------ main

\* main() up to the first request of start(): --push of a missing file returns at
\* once; otherwise the session is opened and the credential chosen.
MainDispatch ==
    /\ pc = "main"
    /\ IF args.mode = "push" /\ PushTarget \notin DOMAIN files
       THEN pc' = "done" /\ UNCHANGED session
       ELSE /\ session' = "open"
            /\ pc' = CASE config.cred = "password" -> "login"
                       [] config.cred = "token" -> "checks"
                       [] OTHER -> "crashed"
    /\ UNCHANGED <<mainVars, observer, diskVars, watchVars, pullVars>>

\* The answer to POST /api/auth/login: a failure raises.
LoginResponse(ok) ==
    /\ pc = "login"
    /\ pc' = IF ok THEN "checks" ELSE "crashed"
    /\ UNCHANGED <<mainVars, session, observer, diskVars, watchVars, pullVars>>

\* start() after authentication: the workspace id, then the initial pull.
StartChecks ==
    /\ pc = "checks"
    /\ IF ~config.workspace THEN pc' = "crashed" /\ UNCHANGED pullVars
       ELSE IF config.auto_pull THEN EnterPull("auto")
       ELSE pc' = "start_watch" /\ UNCHANGED pullVars
    /\ UNCHANGED <<mainVars, session, observer, diskVars, watchVars>>

\* start() after the initial pull: the watch loop if watch_enabled, else return.
StartWatch ==
    /\ pc = "start_watch"
    /\ IF config.watch_enabled THEN observer' = "on" /\ pc' = "watch"
       ELSE pc' = "after_start" /\ UNCHANGED observer
    /\ UNCHANGED <<mainVars, session, diskVars, watchVars, pullVars>>

\* main() after start() has returned: the push, the pull, or nothing.
MainAfterStart ==
    /\ pc = "after_start"
    /\ CASE args.mode = "push" ->
              LET r == push_file(NewTask(PushTarget, FALSE))
              IN  /\ tasks' = Append(tasks, r.task)
                  /\ calls' = calls \o r.sent
                  /\ pc' = "push_wait"
                  /\ UNCHANGED pullVars
         [] args.mode = "pull" ->
              /\ EnterPull("manual")
              /\ UNCHANGED <<tasks, calls>>
         [] OTHER ->
              /\ pc' = "done"
              /\ UNCHANGED <<tasks, calls, pullVars>>
    /\ UNCHANGED <<mainVars, session, observer, diskVars, now, pending_changes,
                   nextId, budget>>

\* main() after push_file has returned: the session is closed.
MainPushReturn ==
    /\ pc = "push_wait"
    /\ \E i \in 1..Len(tasks) : ~tasks[i].timer /\ tasks[i].st = "done"
    /\ session' = "closed"
    /\ pc' = "done"
    /\ UNCHANGED <<mainVars, observer, diskVars, watchVars, pullVars>>

\* ------------------------------------------------------------------ specifications

\* The environment's choices: which file, which bytes, which answer.
FsEvents ==
    \E path \in WatchPaths :
        \E content \in NewContents \cup UNION {Edits(files[q]) : q \in DOMAIN files} :
            FsEvent(path, content)

FsDeletes == \E path \in WatchPaths : FsDelete(path)

Timers == \E i \in 1..Len(tasks) : debounced_push(i)

PushResponses == \E i \in 1..Len(tasks) : \E ok \in BOOLEAN : PushResponse(i, ok)

LoginResponses == \E ok \in BOOLEAN : LoginResponse(ok)

PullTreeResponses == \E ok \in BOOLEAN : PullTreeResponse(ok)

PullVisitFiles == \E ok \in BOOLEAN : PullVisitFile(ok)

\* The whole program.
Next ==
    \/ MainDispatch
    \/ LoginResponses
    \/ StartChecks
    \/ PullTreeResponses
    \/ PullVisitFiles
    \/ PullVisitFolder
    \/ PullReturn
    \/ StartWatch
    \/ MainAfterStart
    \/ MainPushReturn
    \/ FsEvents
    \/ FsDeletes
    \/ Tick
    \/ Timers
    \/ PushResponses
    \/ Interrupt

AllContents == [FileIds -> RemoteContents]

AllTrees == UNION {Trees(c) : c \in AllContents}

\* The spec's example: Folder("A", children=[File("B", "hi")]).
ExampleTree == <<FolderNode(D1, NameA, <<>>, <<FileNode(F1, NameB, T_hi, D1)>>)>>

\* Every command line and every configuration, over one local file and the
\* example tree, with one filesystem event.
Init ==
    InitWith(Modes, Configs, OneFile(PushTarget, {T_hi, HandHeader \o T_hi}),
             {ExampleTree}, {PushTarget}, MainEvents, MainTime)

Spec == Init /\ [][Next]_vars

\* A watch session on A.md: no arguments, a token, watch_enabled, no initial
\* pull, and no interrupt.
WatchConfigs ==
    {c \in Configs : c.cred = "token" /\ c.workspace /\ c.watch_enabled /\ ~c.auto_pull}

InitWatch ==
    InitWith({"watch"}, WatchConfigs, OneFile(PushTarget, NewContents), {<<>>},
             {PushTarget}, MaxEvents, MaxTime)

NextWatch ==
    \/ MainDispatch
    \/ StartChecks
    \/ StartWatch
    \/ FsEvents
    \/ FsDeletes
    \/ Tick
    \/ Timers
    \/ PushResponses

SpecWatch == InitWatch /\ [][NextWatch]_vars

\* A pull, --pull or the initial one or both, of every tree into an empty root.
PullConfigs ==
    {c \in Configs : c.cred = "token" /\ c.workspace /\ ~c.watch_enabled}

InitPull ==
    InitWith({"pull"}, PullConfigs, {<<>>}, AllTrees, {}, 0, 0)

NextPull ==
    \/ MainDispatch
    \/ StartChecks
    \/ PullTreeResponses
    \/ PullVisitFiles
    \/ PullVisitFolder
    \/ PullReturn
    \/ StartWatch
    \/ MainAfterStart

SpecPull == InitPull /\ [][NextPull]_vars

\* The events of a session on two files: a file is created with a plain text,
\* or saved again with the bytes it has.
FsEventsTwo ==
    \E path \in WatchPaths :
        \E content \in {T_hi} \cup {files[q] : q \in DOMAIN files} :
            FsEvent(path, content)

\* A watch session on A.md and B.md, both absent at the start.
InitTwo ==
    InitWith({"watch"}, WatchConfigs, {<<>>}, {<<>>}, WatchPaths, TwoEvents, TwoTime)

NextTwo ==
    \/ MainDispatch
    \/ StartChecks
    \/ StartWatch
    \/ FsEventsTwo
    \/ Tick
    \/ Timers
    \/ PushResponses

SpecTwo == InitTwo /\ [][NextTwo]_vars

\* add_metadata_to_file applied to the text.
CodecInject(doc_id, name, parent_id) ==
    /\ pc = "codec" /\ budget > 0
    /\ files' = add_metadata_to_file(PushTarget, doc_id, name, parent_id)
    /\ budget' = budget - 1
    /\ UNCHANGED <<mainVars, pc, session, observer, dirs, now, pending_changes,
                   tasks, calls, nextId, pullVars>>

\* strip_metadata applied to the text.
CodecStrip ==
    /\ pc = "codec" /\ budget > 0
    /\ files' = (PushTarget :> strip_metadata(files[PushTarget]))
    /\ budget' = budget - 1
    /\ UNCHANGED <<mainVars, pc, session, observer, dirs, now, pending_changes,
                   tasks, calls, nextId, pullVars>>

CodecInjects ==
    \E doc_id \in CodecIds : \E name \in CodecNames : \E parent_id \in CodecParents :
        CodecInject(doc_id, name, parent_id)

\* The codec on its own: one text, and the operations applied to it in any order.
InitCodec ==
    /\ args = [mode |-> "watch"]
    /\ config \in WatchConfigs
    /\ pc = "codec"
    /\ session = "none"
    /\ observer = "off"
    /\ files \in {PushTarget :> c : c \in CodecTexts}
    /\ dirs = {Root}
    /\ now = 0
    /\ pending_changes = <<>>
    /\ tasks = <<>>
    /\ calls = <<>>
    /\ nextId = 1
    /\ tree = <<>>
    /\ worklist = <<>>
    /\ pullCtx = "none"
    /\ pulls = 0
    /\ fetchFailed = {}
    /\ treeFailed = FALSE
    /\ watched = {}
    /\ budget = CodecSteps
    /\ horizon = 0

NextCodec ==
    \/ CodecInjects
    \/ CodecStrip

SpecCodec == InitCodec /\ [][NextCodec]_vars

\* The latest time a watch session can need: every event and every write-back
\* arms one timer, and every timer is followed by one request.
LiveCap == MaxTime + 2 * DebounceTime * (MaxEvents + 1)

\* Time passes while no sleep is due, for as long as a timer is armed: the
\* event loop runs until it is stopped.
TickArmed ==
    /\ pc = "watch"
    /\ now < horizon \/ \E i \in 1..Len(tasks) : tasks[i].st = "sleeping"
    /\ now < LiveCap
    /\ \A i \in 1..Len(tasks) :
          tasks[i].st = "sleeping" => now < tasks[i].armed + DebounceTime
    /\ now' = now + 1
    /\ UNCHANGED <<mainVars, pc, session, observer, diskVars, pending_changes,
                   tasks, calls, nextId, pullVars, budget>>

NextQuiet ==
    \/ MainDispatch
    \/ StartChecks
    \/ StartWatch
    \/ FsEventsTwo
    \/ FsDeletes
    \/ TickArmed
    \/ Timers
    \/ PushResponses

\* A sleep has returned: some debounced_push can go on.
TimerDue ==
    /\ Alive
    /\ \E i \in 1..Len(tasks) :
          tasks[i].st = "sleeping" /\ now >= tasks[i].armed + DebounceTime

\* A watch session on A.md, created or saved again with a plain text or deleted,
\* in which the clock runs, every request is answered
\* and every sleep that has returned is followed by the rest of its task: weak
\* fairness of Timers, written with the condition under which it is enabled.
InitQuiet ==
    InitWith({"watch"}, WatchConfigs, OneFile(PushTarget, {T_hi}), {<<>>},
             {PushTarget}, MaxEvents, MaxTime)

SpecQuiet ==
    /\ InitQuiet
    /\ [][NextQuiet]_vars
    /\ WF_vars(TickArmed)
    /\ WF_vars(PushResponses)
    /\ ([]<>(~TimerDue) \/ []<><<Timers>>_vars)

\* --push A.md with auto_pull and without watch_enabled: start() pulls the tree,
\* then main() pushes the file as the pull has left it.
PullPushConfigs ==
    {c \in Configs : c.cred = "token" /\ c.workspace /\ c.auto_pull /\ ~c.watch_enabled}

InitPullPush ==
    InitWith({"push"}, PullPushConfigs, OneFile(PushTarget, {T_yo}), AllTrees, {}, 0, 0)

NextPullPush ==
    \/ MainDispatch
    \/ StartChecks
    \/ PullTreeResponses
    \/ PullVisitFiles
    \/ PullVisitFolder
    \/ PullReturn
    \/ StartWatch
    \/ MainAfterStart
    \/ PushResponses
    \/ MainPushReturn

SpecPullPush == InitPullPush /\ [][NextPullPush]_vars

\* ------------------------------------------------------------------ claims

\* Task i has called push_file.
Pushed(t) == t.st # "sleeping" /\ t.outcome # "skipped"

\* In this step task i calls push_file: a timer passes its check, or main()
\* pushes the file of --push.
StartsPush(i) ==
    /\ i \in 1..Len(tasks')
    /\ IF i <= Len(tasks) THEN tasks[i].st = "sleeping" ELSE TRUE
    /\ Pushed(tasks'[i])

IsSuffix(a, b) == Len(a) <= Len(b) /\ a = From(b, Len(b) - Len(a) + 1)

HeaderId(content) == MetaGet(extract_metadata(content), KEY_ID)

\* C1: two pushes of one path come from two bursts: the events that armed their
\* timers lie at least debounce_time apart, so a burst is pushed at most once
\* and by its last timer.
C1_OnePushPerBurst ==
    \A i, j \in 1..Len(tasks) :
        (/\ i < j
         /\ tasks[i].timer /\ tasks[j].timer
         /\ tasks[i].path = tasks[j].path
         /\ Pushed(tasks[i]) /\ Pushed(tasks[j]))
        => tasks[j].armed - tasks[i].armed >= DebounceTime

\* C2: a step never changes the remote id that a file's header carries.
C2_IdentityStable ==
    [][\A p \in DOMAIN files \cap DOMAIN files' :
          HeaderId(files[p]) # <<>> => HeaderId(files'[p]) = HeaderId(files[p])]_vars

\* The step in which task i starts the push of a file without remote id.
C3_Begin(i) ==
    LET p == tasks'[i].path
        m == extract_metadata(files[p])
        c == calls'[Len(calls')]
    IN  (/\ StartsPush(i)
         /\ p \in DOMAIN files
         /\ session = "open"
         /\ HeaderId(files[p]) = <<>>)
        => /\ Len(calls') = Len(calls) + 1
           /\ SubSeq(calls', 1, Len(calls)) = calls
           /\ c.op = "create"
           /\ c.body = strip_metadata(files[p])
           /\ c.name = (IF KEY_NAME \in DOMAIN m THEN m[KEY_NAME] ELSE Stem(p))
           /\ c.parent = MetaGet(m, KEY_PARENT)
           /\ tasks'[i].name = c.name
           /\ tasks'[i].parent = c.parent

\* The step in which the create of task i is answered with success.
C3_Return(i) ==
    LET t == tasks[i]
        p == t.path
        m == extract_metadata(files'[p])
    IN  (/\ t.st = "creating"
         /\ tasks'[i].st # "creating"
         /\ nextId' = nextId + 1
         /\ p \in DOMAIN files)
        => /\ p \in DOMAIN files'
           /\ DOMAIN m = {KEY_ID, KEY_NAME}
                  \cup (IF t.parent # <<>> THEN {KEY_PARENT} ELSE {})
           /\ m[KEY_ID] = IdOf(nextId)
           /\ m[KEY_NAME] = t.name
           /\ MetaGet(m, KEY_PARENT) = t.parent
           /\ IsSuffix(strip_metadata(files'[p]), strip_metadata(files[p]))

\* C3: a push of a file whose header has no remote id sends one create request
\* with the stripped body and the resolved name; when the create succeeds and the
\* file is on disk, the file afterwards starts with a header that holds the
\* returned id, that name and the old parent, and nothing of the old header.
C3_NewFilePush ==
    [][/\ \A i \in 1..Len(tasks') : C3_Begin(i)
       /\ \A i \in 1..Len(tasks) : C3_Return(i)]_vars

\* A create has succeeded for a file named by its header, and the id is in it.
C3_Witness ==
    \E i \in 1..Len(tasks) :
        /\ tasks[i].outcome = "created"
        /\ \E k \in 1..Len(calls) : calls[k].op = "create" /\ calls[k].name = <<"N">>
        /\ tasks[i].path \in DOMAIN files
        /\ HeaderId(files[tasks[i].path]) = IdOf(1)

\* The step in which task i starts the push of a file with a remote id.
C4_Begin(i) ==
    LET p == tasks'[i].path
        c == calls'[Len(calls')]
    IN  (/\ StartsPush(i)
         /\ p \in DOMAIN files
         /\ session = "open"
         /\ HeaderId(files[p]) # <<>>)
        => /\ Len(calls') = Len(calls) + 1
           /\ SubSeq(calls', 1, Len(calls)) = calls
           /\ c.op = "update"
           /\ c.id = HeaderId(files[p])
           /\ c.body = strip_metadata(files[p])
           /\ files' = files

\* The step in which the update of task i is answered.
C4_Return(i) ==
    (tasks[i].st = "updating" /\ tasks'[i].st # "updating")
    => files' = files /\ calls' = calls /\ nextId' = nextId

\* C4: a push of a file whose header has remote id X sends one update request
\* with id X and no other request, and neither the request nor its answer,
\* success or failure, changes a byte on disk.
C4_ExistingFilePush ==
    [][/\ \A i \in 1..Len(tasks') : C4_Begin(i)
       /\ \A i \in 1..Len(tasks) : C4_Return(i)]_vars

\* An update of document X has succeeded and another push of it has failed.
C4_Witness ==
    /\ \E k \in 1..Len(calls) : calls[k].op = "update" /\ calls[k].id = IdX
    /\ \E i \in 1..Len(tasks) : tasks[i].outcome = "updated"
    /\ \E i \in 1..Len(tasks) : tasks[i].outcome = "failed"

\* C5: a task whose push failed ends normally, never with an error of its own.
C5_FailureContained ==
    \A i \in 1..Len(tasks) :
        tasks[i].outcome = "failed" => tasks[i].st # "unhandled"

\* The nodes of a tree, each with the directory it is written into.
RECURSIVE Placed(_, _)
Placed(items, dir) ==
    UNION { {[node |-> items[k], dir |-> dir]}
            \cup (IF items[k].type = "folder"
                  THEN Placed(items[k].children, Append(dir, items[k].name))
                  ELSE {})
            : k \in 1..Len(items) }

PathOf(v) == Append(v.dir, v.node.name)

\* sync_tree_to_files has visited the whole tree and pull_all is about to return.
PullEnd == pc = "pull_walk" /\ worklist = <<>>

\* C6: after a pull in which every fetch succeeded, every folder has its
\* directory and every file node a file whose header holds the node's id and
\* whose stripped body is the node's content.
C6_TreeReconciled ==
    (PullEnd /\ fetchFailed = {})
    => \A v \in Placed(tree, Root) :
          IF v.node.type = "folder" THEN PathOf(v) \in dirs
          ELSE /\ PathOf(v) \in DOMAIN files
               /\ HeaderId(files[PathOf(v)]) = v.node.id
               /\ strip_metadata(files[PathOf(v)]) = v.node.content

\* C7: at the end of a pull, a file node whose content fetch failed has a file
\* with an empty body under a header with its id, and every other node is on
\* disk exactly as a pull without failures writes it.
C7_PullResilience ==
    PullEnd
    => \A v \in Placed(tree, Root) :
          IF v.node.type = "folder" THEN PathOf(v) \in dirs
          ELSE /\ PathOf(v) \in DOMAIN files
               /\ IF v.node.id \in fetchFailed
                  THEN /\ strip_metadata(files[PathOf(v)]) = <<>>
                       /\ HeaderId(files[PathOf(v)]) = v.node.id
                  ELSE files[PathOf(v)] =
                           add_metadata_to_content(v.node.content, v.node.id,
                                                   v.node.name, v.node.parent_id)

\* The fetch of f1 failed, and f2, visited after it, is part of the tree.
C7_Witness ==
    /\ PullEnd
    /\ fetchFailed = {F1}
    /\ \E v \in Placed(tree, Root) : v.node.id = F2

\* C8: from the step in which the tree request answers non-200 on, the pull has
\* failed and nothing on disk changes.
C8_FailedTreeFetch ==
    [][treeFailed' => (pc' = "crashed" /\ files' = files /\ dirs' = dirs)]_vars

\* The tree request of --pull has failed after the initial pull wrote files.
C8_Witness == treeFailed /\ pulls = 2 /\ files # <<>>

\* C9: a process that has stopped after opening the session has closed it.
C9_SessionReleased == (~Alive /\ session # "none") => session = "closed"

\* C10: when --pull has ended, pull_all has run once; when --push of an
\* existing file has ended, push_file has run once on behalf of main().
C10_OneShot ==
    pc = "done"
    => /\ args.mode = "pull" => pulls = 1
       /\ (args.mode = "push" /\ session # "none")
             => Cardinality({i \in 1..Len(tasks) : ~tasks[i].timer}) = 1

\* The paths whose tasks take part in a step: a task created, or a task changed.
Touched ==
    {tasks'[i].path : i \in {k \in 1..Len(tasks') : k > Len(tasks) \/ tasks'[k] # tasks[k]}}

\* The pending entry of a path, or nothing.
Entry(pending, q) == IF q \in DOMAIN pending THEN <<pending[q]>> ELSE <<>>

\* A push of path q is waiting for the answer to its request.
InFlight(q) ==
    \E i \in 1..Len(tasks) : tasks[i].path = q /\ tasks[i].st \in {"creating", "updating"}

\* C11: a step of an event, a timer or a push of one path leaves the pending
\* entry of every other path as it is and sends requests for its own path only,
\* and a timer whose quiet period is over starts its push whatever is in flight
\* for another path.
C11_PathIndependence ==
    [][/\ Cardinality(Touched) <= 1
       /\ \A q \in WatchPaths :
             q \notin Touched
             => Entry(pending_changes', q) = Entry(pending_changes, q)
       /\ \A k \in (Len(calls) + 1)..Len(calls') : calls'[k].path \in Touched
       /\ \A i \in 1..Len(tasks) :
             (/\ tasks[i].st = "sleeping" /\ tasks'[i].st # "sleeping"
              /\ Entry(pending_changes, tasks[i].path) # <<>>
              /\ now - pending_changes[tasks[i].path] >= DebounceTime
              /\ tasks[i].path \in DOMAIN files)
             => /\ Len(calls') = Len(calls) + 1
                /\ calls'[Len(calls')].path = tasks[i].path
                /\ calls'[Len(calls')].at = tasks[i].armed + DebounceTime]_vars

\* While a push of A.md waits for its answer, an event for B.md was accepted
\* and the push of B.md has been sent, and the entry of A.md is still there.
C11_Witness ==
    /\ InFlight(<<NameA>>)
    /\ <<NameA>> \in DOMAIN pending_changes
    /\ \E j, k \in 1..Len(calls) :
          /\ j < k
          /\ calls[j].path = <<NameA>>
          /\ calls[k].path = <<NameB>>
          /\ \E i \in 1..Len(tasks) :
                tasks[i].path = <<NameB>> /\ tasks[i].armed >= calls[j].at

\* The text the codec works on.
Text == files[PushTarget]

\* C12: for the text and every id, name and parent, injecting into the stripped
\* result of an injection gives the result of that injection.
C12_InjectIdempotent ==
    pc = "codec"
    => \A doc_id \in CodecIds : \A name \in CodecNames : \A parent_id \in CodecParents :
          LET once == add_metadata_to_content(Text, doc_id, name, parent_id)
          IN  add_metadata_to_content(strip_metadata(once), doc_id, name, parent_id) = once

\* C13: for a text that does not start with a header block and every id, name
\* and parent, stripping the result of an injection gives the text back.
C13_RoundTrip ==
    (pc = "codec" /\ ~HeaderMatch(Text).found)
    => \A doc_id \in CodecIds : \A name \in CodecNames : \A parent_id \in CodecParents :
          strip_metadata(add_metadata_to_content(Text, doc_id, name, parent_id)) = Text

\* C14: for the text and every single-line id, name and parent, the header
\* extracted from the result of an injection holds that id, that name, that
\* parent if one was given, and nothing else.
C14_ExtractAfterInject ==
    pc = "codec"
    => \A doc_id \in CodecIds : \A name \in CodecNames : \A parent_id \in CodecParents :
          LET m == extract_metadata(add_metadata_to_content(Text, doc_id, name, parent_id))
          IN  /\ DOMAIN m = {KEY_ID, KEY_NAME}
                     \cup (IF parent_id # <<>> THEN {KEY_PARENT} ELSE {})
              /\ m[KEY_ID] = doc_id
              /\ m[KEY_NAME] = name
              /\ parent_id # <<>> => m[KEY_PARENT] = parent_id

\* C15: the session is never closed while the observer is running, and once an
\* interrupt has stopped the observer and closed the session no push is started.
C15_ShutdownOrder ==
    [][/\ session' = "closed" => observer' # "on"
       /\ (observer = "stopped" /\ session = "closed")
             => \A i \in 1..Len(tasks') : ~StartsPush(i)]_vars

\* The time of the most recent event of a path: every event creates a timer.
LastEvent(q) ==
    Max({tasks[k].armed : k \in {j \in 1..Len(tasks) : tasks[j].timer /\ tasks[j].path = q}})

\* C16: a timer starts a push only when debounce_time has passed since the most
\* recent event of its path, which is the time the pending entry holds; a timer
\* that wakes earlier than that starts nothing and leaves the pending map, the
\* requests and the disk as they are.
C16_QuietPeriod ==
    [][\A i \in 1..Len(tasks) :
          (tasks[i].timer /\ tasks[i].st = "sleeping" /\ tasks'[i].st # "sleeping")
          => IF Pushed(tasks'[i])
             THEN /\ tasks[i].path \in DOMAIN pending_changes
                  /\ pending_changes[tasks[i].path] = LastEvent(tasks[i].path)
                  /\ now - LastEvent(tasks[i].path) >= DebounceTime
             ELSE /\ pending_changes' = pending_changes
                  /\ calls' = calls
                  /\ files' = files]_vars

\* A timer woke while a newer event had re-armed its path and started nothing,
\* and the timer of the newer event has pushed.
C16_Witness ==
    \E i, j \in 1..Len(tasks) :
        /\ i < j
        /\ tasks[i].path = tasks[j].path
        /\ tasks[i].armed < tasks[j].armed
        /\ tasks[i].outcome = "skipped"
        /\ tasks[j].timer /\ Pushed(tasks[j])

\* C17: two create requests for one path are never waiting for their answers
\* at the same time: a file without a header is created once.
C17_SingleCreation ==
    \A i, j \in 1..Len(tasks) :
        (i < j /\ tasks[i].path = tasks[j].path /\ tasks[i].st = "creating")
        => tasks[j].st # "creating"

\* Task j accounts for the event that armed timer i: it belongs to a later
\* event of the same path, or it is a timer that has pushed at or after the
\* time of that event.
Covers(j, i) ==
    /\ tasks[j].path = tasks[i].path
    /\ \/ tasks[j].armed > tasks[i].armed
       \/ /\ tasks[j].timer /\ Pushed(tasks[j])
          /\ tasks[j].armed + DebounceTime >= tasks[i].armed

\* C18: the timer of an event neither gives up nor waits without a pending
\* entry, unless a later event of its path or a push at or after the event
\* accounts for it.
C18_NoLostChange ==
    \A i \in 1..Len(tasks) :
        (/\ tasks[i].timer
         /\ \/ tasks[i].outcome = "skipped"
            \/ tasks[i].st = "sleeping" /\ tasks[i].path \notin DOMAIN pending_changes)
        => \E j \in 1..Len(tasks) : Covers(j, i)

\* No timer is armed, no push waits for an answer, the pending map is empty.
Quiet ==
    /\ pending_changes = <<>>
    /\ \A i \in 1..Len(tasks) : tasks[i].st \notin {"sleeping", "creating", "updating"}

\* The step in which the create of task i is answered and the header written:
\* one timer is armed for the file, which now carries the returned id.
C19_WriteBack(i) ==
    (tasks[i].st = "creating" /\ tasks'[i].outcome = "created")
    => /\ Len(tasks') = Len(tasks) + 1
       /\ tasks'[Len(tasks')].path = tasks[i].path
       /\ HeaderId(files'[tasks[i].path]) = IdOf(nextId)

\* The step in which timer i starts the push of a file that carries an id: an
\* update is sent and the file stays as it is; and the step in which an update
\* is answered: no timer is armed.
C19_Update(i) ==
    /\ (/\ tasks[i].timer /\ tasks[i].st = "sleeping" /\ Pushed(tasks'[i])
        /\ tasks[i].path \in DOMAIN files
        /\ HeaderId(files[tasks[i].path]) # <<>>)
       => /\ tasks'[i].st = "updating"
          /\ calls'[Len(calls')].op = "update"
          /\ files' = files
    /\ (tasks[i].st = "updating" /\ tasks'[i].st # "updating")
       => Len(tasks') = Len(tasks) /\ files' = files

\* C19: the write-back of a successful create arms one timer for the file, the
\* push of a file that carries an id is an update that neither rewrites the file
\* nor arms a timer, and the session ends up with no armed timer, no push in
\* flight and an empty pending map.
C19_Quiescence ==
    /\ [][\A i \in 1..Len(tasks) : C19_WriteBack(i) /\ C19_Update(i)]_vars
    /\ <>[]Quiet

\* All is quiet after a create has written the header and the timer that the
\* write-back armed has sent the update.
C19_Witness ==
    /\ Quiet
    /\ \E i, j \in 1..Len(tasks) :
          /\ tasks[i].outcome = "created"
          /\ tasks[j].outcome = "updated"
          /\ tasks[j].path = tasks[i].path
          /\ tasks[j].armed >= tasks[i].armed + DebounceTime
          /\ \E k \in 1..Len(calls) :
                calls[k].op = "update" /\ calls[k].at = tasks[j].armed + DebounceTime

\* C20: when a pull without failures has written the file of a node and the
\* file is pushed as it is, the request is an update with the node's id, the
\* node's name and the node's remote content as its body.
C20_PullThenPush ==
    (pulls = 1 /\ fetchFailed = {} /\ ~treeFailed /\ calls # <<>>)
    => \A v \in Placed(tree, Root) :
          (v.node.type = "file" /\ PathOf(v) = PushTarget)
          => /\ Len(calls) = 1
             /\ calls[1].op = "update"
             /\ calls[1].id = v.node.id
             /\ calls[1].name = v.node.name
             /\ calls[1].body = v.node.content

====
